---- MODULE Spec2Model ----
(***************************************************************************)
(* The cluster lifecycle controller of aws-parallelcluster (PclusterApi,   *)
(* src/cli/src/api/pcluster_api.py) as a state machine.  Every public      *)
(* operation is a sequence of steps of one caller: the entry step writes   *)
(* the process-wide AWS_DEFAULT_REGION, the following steps are the calls  *)
(* to the deployment service, each of which reads that variable again.     *)
(***************************************************************************)
EXTENDS Integers, Sequences, FiniteSets, TLC

\* ------------------------------------------------------------------ bounds
\* Longest list of findings the validator oracle reports.
MaxFindings == 2
\* Most stacks of other clusters a region enumerates besides the cluster's own.
MaxOthers == 2
\* Stacks the deployment service returns per page of an enumeration.
PageSize == 2
\* Longest list of additional managed-policy ARNs of a node.
MaxArns == 1
\* Longest list of S3 access grants of a node.
MaxGrants == 2
\* Longest list of resource patterns of one S3 access grant.
MaxPatterns == 1
\* Most provisioned storages of one type.
MaxIds == 2
\* Longest list of security groups a queue declares.
MaxGroups == 2

\* --------------------------------------------------------------- constants
Threads == {1, 2}
\* The single caller of the sequential specification.
SeqThreads == {1}

Regions == {"eu-west-1", "us-east-1"}
\* The value of AWS_DEFAULT_REGION the process is started with.
StartRegion == "us-east-1"
\* A falsy region argument: `if region:` does not write the environment.
NoRegion == ""
RegionArgs == Regions \cup {NoRegion}

\* Versions are release triples; 2.10.0 predates the 3.0.0 boundary.
Versions == {<<2, 10, 0>>, <<3, 0, 0>>, <<3, 1, 0>>}
NoVersion == <<0, 0, 0>>
\* get_installed_version()
InstalledVersion == <<3, 0, 0>>
\* version.parse("3.0.0")
BoundaryVersion == <<3, 0, 0>>

FleetStatuses == {"STOPPED", "STOPPING", "STOP_REQUESTED", "STARTING",
                  "START_REQUESTED", "RUNNING", "UNKNOWN"}

Severities == {"INFO", "WARNING", "ERROR"}
\* Python's None for an optional list.
None == <<"None">>

\* packaging.version: release triples compare lexicographically.
VersionLess(a, b) ==
    \/ a[1] < b[1]
    \/ a[1] = b[1] /\ a[2] < b[2]
    \/ a[1] = b[1] /\ a[2] = b[2] /\ a[3] < b[3]

\* ------------------------------------------------------------------- state
VARIABLES
    env,      \* os.environ["AWS_DEFAULT_REGION"], one per process
    stack,    \* deployment service: region -> the cluster's stack
    pc,       \* caller -> position inside its operation
    op,       \* caller -> the operation and its arguments
    snap,     \* caller -> cluster.stack, the snapshot the Cluster caches
    calls,    \* caller -> provider calls of the current invocation
    result,   \* caller -> value returned by the last invocation
    hist,     \* caller -> what the invocation met (cause, pre-state, findings)
    synth     \* last call of a template-builder function: name, input, output

vars == <<env, stack, pc, op, snap, calls, result, hist, synth>>

NoStack == [exists |-> FALSE, version |-> NoVersion, working |-> FALSE,
            fleet |-> "UNKNOWN"]
StackStates ==
    [exists : {TRUE}, version : Versions, working : BOOLEAN,
     fleet : FleetStatuses]

NoOp == [name |-> "none", region |-> NoRegion, status |-> "UNKNOWN",
         suppress |-> FALSE, level |-> "ERROR", rollback |-> FALSE,
         keep_logs |-> TRUE, keep_arg |-> "omitted"]
NoResult == [kind |-> "none", message |-> "", validation_failures |-> <<>>,
             infos |-> <<>>]
NoSynth == [fn |-> "none", arg |-> <<>>, out |-> <<>>, called |-> FALSE]
NoHist == [cause |-> "none", pre |-> NoStack, target |-> NoRegion,
           found |-> None, listed |-> <<>>]

\* --------------------------------------------------------- result carriers
\* ApiFailure without the default message.
ApiFailureNoDefault(message, validation_failures) ==
    [kind |-> "failure",
     message |-> message,
     validation_failures |->
         IF validation_failures = None \/ validation_failures = <<>>
         THEN <<>> ELSE validation_failures,
     infos |-> <<>>]

\* ApiFailure.__init__: a falsy message or list is replaced by the default.
ApiFailure(message, validation_failures) ==
    [kind |-> "failure",
     message |-> IF message = "" THEN "Something went wrong." ELSE message,
     validation_failures |->
         IF validation_failures = None \/ validation_failures = <<>>
         THEN <<>> ELSE validation_failures,
     infos |-> <<>>]

Exc(type, msg, vf) == [type |-> type, msg |-> msg, vf |-> vf]

\* Messages a provider fault can carry; str(e) of a bare exception is "".
FaultMessages == {"", "provider fault"}

\* ----------------------------------------------------------------- helpers
SeverityRank(s) ==
    CASE s = "INFO" -> 1
      [] s = "WARNING" -> 2
      [] s = "ERROR" -> 3

\* Lists of findings the validator oracle can report.
FindingLists == UNION {[1..n -> Severities] : n \in 0..MaxFindings}

\* A provider call is logged with the region the client resolves, which is
\* the value of AWS_DEFAULT_REGION at the time of the call.
Call(api, flag) == [api |-> api, region |-> env, flag |-> flag]

\* ClusterInfo.__init__(stack, cluster): `live` is the head node instance the
\* cluster resolves, "None" when no cluster object is passed.
\* A snapshot that copies the head-node address and user from any stack.
ClusterInfoUnguarded(s, cluster, live) ==
    [region |-> env,
     version |-> s.version,
     working |-> s.working,
     head_node_ip |-> "ip",
     user |-> "user",
     head_node |-> IF cluster THEN live ELSE "None",
     compute_instances |-> IF cluster THEN "instances" ELSE "None"]

ClusterInfo(s, cluster, live) ==
    [region |-> env,
     version |-> s.version,
     working |-> s.working,
     head_node_ip |-> IF s.working THEN "ip" ELSE "absent",
     user |-> IF s.working THEN "user" ELSE "absent",
     head_node |-> IF cluster /\ s.working THEN live ELSE "None",
     compute_instances |-> IF cluster THEN "instances" ELSE "None"]

Success(kind, infos) ==
    [kind |-> kind, message |-> "", validation_failures |-> <<>>,
     infos |-> infos]

\* create_cluster with the ClusterActionError clause dropping the findings.
CatchCreateDropsFindings(e) == ApiFailure(e.msg, None)

\* The except clauses of create_cluster: ClusterActionError keeps the
\* validation failures, any other Exception only its message.
CatchCreate(e) ==
    IF e.type = "ClusterActionError"
    THEN ApiFailure(e.msg, e.vf)
    ELSE ApiFailure(e.msg, None)

\* An except clause narrowed to ClusterActionError.
CatchOnlyClusterActionError(e) ==
    IF e.type = "ClusterActionError"
    THEN ApiFailure(e.msg, None)
    ELSE [kind |-> "escaped", message |-> e.msg,
          validation_failures |-> <<>>, infos |-> <<>>]

\* The except clause of every other operation: `except Exception as e`.
CatchAny(e) == ApiFailure(e.msg, None)

Catch(name, e) == IF name = "create" THEN CatchCreate(e) ELSE CatchAny(e)

\* An exception raised inside the try block ends the invocation with the
\* value the except clause returns.
Raise(t, e, cause) ==
    /\ result' = [result EXCEPT ![t] = Catch(op[t].name, e)]
    /\ hist' = [hist EXCEPT ![t].cause = cause]
    /\ pc' = [pc EXCEPT ![t] = "done"]

Return(t, v) ==
    /\ result' = [result EXCEPT ![t] = v]
    /\ pc' = [pc EXCEPT ![t] = "done"]

Goto(t, label) == pc' = [pc EXCEPT ![t] = label]

\* ---------------------------------------------------------------- entries
\* The first statements of every operation: a truthy region argument is
\* written to the environment, then the Cluster object is built.
Enter(t, o, first) ==
    /\ pc[t] \in {"idle", "done"}
    /\ env' = IF o.region # NoRegion THEN o.region ELSE env
    /\ op' = [op EXCEPT ![t] = o]
    /\ calls' = [calls EXCEPT ![t] = <<>>]
    /\ result' = [result EXCEPT ![t] = NoResult]
    /\ snap' = [snap EXCEPT ![t] = NoStack]
    /\ hist' = [hist EXCEPT ![t] = [NoHist EXCEPT !.pre = stack[env'],
                                                  !.target = env']]
    /\ Goto(t, first)
    /\ UNCHANGED <<stack, synth>>

describe_cluster(t) ==
    \E r \in RegionArgs :
        Enter(t, [NoOp EXCEPT !.name = "describe", !.region = r], "stack")

update_cluster(t) ==
    \E r \in RegionArgs :
        Enter(t, [NoOp EXCEPT !.name = "update", !.region = r], "stack")

\* The keep_logs argument as the caller writes it: left out, True or False.
KeepArgs == {"omitted", "true", "false"}

\* A signature whose flag defaults to False.
KeepLogsDefaultFalse(k) == k = "true"

\* keep_logs: bool = True
KeepLogs(k) == IF k = "omitted" THEN TRUE ELSE k = "true"

delete_cluster(t) ==
    \E r \in RegionArgs, k \in KeepArgs :
        Enter(t, [NoOp EXCEPT !.name = "delete", !.region = r,
                              !.keep_arg = k, !.keep_logs = KeepLogs(k)],
              "stack")

list_clusters(t) ==
    \E r \in RegionArgs :
        Enter(t, [NoOp EXCEPT !.name = "list", !.region = r], "list")

update_compute_fleet_status(t) ==
    \E r \in RegionArgs, s \in FleetStatuses :
        Enter(t, [NoOp EXCEPT !.name = "fleet", !.region = r, !.status = s],
              "stack")

create_cluster(t) ==
    \E r \in RegionArgs, sup \in BOOLEAN, lvl \in Severities, rb \in BOOLEAN :
        Enter(t, [NoOp EXCEPT !.name = "create", !.region = r,
                              !.suppress = sup, !.level = lvl,
                              !.rollback = rb], "validate")

\* ------------------------------------------------------------- Cluster.stack
\* The Cluster object resolves its stack with one describeStack call in the
\* ambient region and caches the snapshot; NotFound and faults are raised.
Log(t, c) == calls' = [calls EXCEPT ![t] = Append(@, c)]

\* Where each operation continues once cluster.stack is resolved.
\* The requested status tested right after the cluster is resolved.
AfterStackStatusFirst(name) ==
    CASE name = "describe" -> "info"
      [] name = "update" -> "version"
      [] name = "delete" -> "delete"
      [] name = "fleet" -> "dispatch"

AfterStack(name) ==
    CASE name = "describe" -> "info"
      [] name = "update" -> "version"
      [] name = "delete" -> "delete"
      [] name = "fleet" -> "guard"

ClusterStack(t) ==
    /\ pc[t] = "stack"
    /\ Log(t, Call("describeStack", FALSE))
    /\ \/ \E m \in FaultMessages : Raise(t, Exc("Exception", m, None), "fault")
       \/ /\ ~stack[env].exists
          /\ Raise(t, Exc("Exception", "stack does not exist", None),
                   "notfound")
       \/ /\ stack[env].exists
          /\ Goto(t, AfterStack(op[t].name))
          /\ UNCHANGED <<result, hist>>
    /\ snap' = [snap EXCEPT ![t] = stack[env]]
    /\ UNCHANGED <<env, stack, op, synth>>

\* ------------------------------------------------------------ ClusterInfo
\* return ClusterInfo(cluster.stack, cluster): the head node is looked up
\* only for a working stack, the compute instances always.
LiveCalls(s) ==
    (IF s.working THEN <<Call("describeHeadNode", FALSE)>> ELSE <<>>)
        \o <<Call("describeComputeInstances", FALSE)>>

ReturnClusterInfo(t) ==
    /\ pc[t] = "info"
    /\ IF op[t].name = "create"
       THEN /\ Return(t, Success("info",
                                 <<ClusterInfo(snap[t], FALSE, "None")>>))
            /\ UNCHANGED <<calls, hist>>
       ELSE /\ calls' = [calls EXCEPT ![t] = @ \o LiveCalls(snap[t])]
            /\ \/ \E m \in FaultMessages :
                      Raise(t, Exc("Exception", m, None), "fault")
               \/ /\ \E live \in {"None", "i-head"} :
                         Return(t, Success("info",
                                    <<ClusterInfo(snap[t], TRUE, live)>>))
                  /\ UNCHANGED hist
    /\ UNCHANGED <<env, stack, op, snap, synth>>

\* ---------------------------------------------------------- update_cluster
\* The version gate refusing only stacks older than the installed version.
VersionOlder(v, installed) == VersionLess(v, installed)

\* The version gate with the comparison inverted.
VersionSame(v, installed) == v = installed

VersionDiffers(v, installed) == v # installed

UpdateVersionCheck(t) ==
    /\ pc[t] = "version"
    /\ IF VersionDiffers(snap[t].version, InstalledVersion)
       THEN Raise(t, Exc("ClusterActionError",
                         "The cluster was created with a different version",
                         None), "version")
       ELSE Goto(t, "info") /\ UNCHANGED <<result, hist>>
    /\ UNCHANGED <<env, stack, op, snap, calls, synth>>

\* ---------------------------------------------- update_compute_fleet_status
\* The fleet guard comparing against 2.0.0 instead of 3.0.0.
_is_version_1(s) == VersionLess(s.version, <<2, 0, 0>>)

_is_version_2(s) == VersionLess(s.version, BoundaryVersion)

FleetVersionGuard(t) ==
    /\ pc[t] = "guard"
    /\ IF _is_version_2(snap[t])
       THEN Raise(t, Exc("ClusterActionError",
                         "This operation may only be performed using the same version",
                         None), "version")
       ELSE Goto(t, "dispatch") /\ UNCHANGED <<result, hist>>
    /\ UNCHANGED <<env, stack, op, snap, calls, synth>>

\* Dispatches with a branch calling the wrong method, or without the else.
DispatchStartStops(status) ==
    CASE status = "START_REQUESTED" -> "stop"
      [] status = "STOP_REQUESTED" -> "stop"
      [] OTHER -> "unsupported"

DispatchStopStarts(status) ==
    CASE status = "START_REQUESTED" -> "start"
      [] status = "STOP_REQUESTED" -> "start"
      [] OTHER -> "unsupported"

DispatchSwapped(status) ==
    CASE status = "START_REQUESTED" -> "stop"
      [] status = "STOP_REQUESTED" -> "start"
      [] OTHER -> "unsupported"

DispatchNoElse(status) ==
    CASE status = "START_REQUESTED" -> "start"
      [] OTHER -> "stop"

\* The if/elif/else on the requested status.
Dispatch(status) ==
    CASE status = "START_REQUESTED" -> "start"
      [] status = "STOP_REQUESTED" -> "stop"
      [] OTHER -> "unsupported"

FleetDispatch(t) ==
    /\ pc[t] = "dispatch"
    /\ IF Dispatch(op[t].status) = "unsupported"
       THEN /\ Return(t, ApiFailure("Unable to update the compute fleet. Not supported.",
                                    None))
            /\ hist' = [hist EXCEPT ![t].cause = "unsupported"]
       ELSE /\ Goto(t, Dispatch(op[t].status))
            /\ UNCHANGED <<result, hist>>
    /\ UNCHANGED <<env, stack, op, snap, calls, synth>>

\* cluster.start() / cluster.stop(): read the fleet status, and request the
\* transition unless the fleet already is in, or on its way to, the target.
Redundant(request, current) ==
    IF request = "START_REQUESTED"
    THEN current \in {"RUNNING", "STARTING", "START_REQUESTED"}
    ELSE current \in {"STOPPED", "STOPPING", "STOP_REQUESTED"}

FleetRequest(t, request) ==
    /\ \/ /\ Log(t, Call("readFleetStatus", FALSE))
          /\ \E m \in FaultMessages :
                 Raise(t, Exc("Exception", m, None), "fault")
          /\ UNCHANGED stack
       \/ /\ Redundant(request, stack[env].fleet)
          /\ Log(t, Call("readFleetStatus", FALSE))
          /\ Return(t, Success("ok", <<>>))
          /\ UNCHANGED <<stack, hist>>
       \/ /\ ~Redundant(request, stack[env].fleet)
          /\ calls' = [calls EXCEPT ![t] = @ \o <<Call("readFleetStatus", FALSE),
                                                  Call("updateFleetStatus", FALSE)>>]
          /\ \/ /\ \E m \in FaultMessages :
                       Raise(t, Exc("Exception", m, None), "fault")
                /\ UNCHANGED stack
             \/ /\ stack' = [stack EXCEPT ![env].fleet = request]
                /\ Return(t, Success("ok", <<>>))
                /\ UNCHANGED hist
    /\ UNCHANGED <<env, op, snap, synth>>

ClusterStart(t) == pc[t] = "start" /\ FleetRequest(t, "START_REQUESTED")

ClusterStop(t) == pc[t] = "stop" /\ FleetRequest(t, "STOP_REQUESTED")

\* ---------------------------------------------------------- cluster.create
\* A finding blocks the creation when its severity reaches the threshold.
Blocking(findings, level) ==
    \E i \in 1..Len(findings) :
        SeverityRank(findings[i]) >= SeverityRank(level)

\* Cluster(name, config) loads the configuration, which can fail; then the
\* validator oracle runs unless suppressed, and blocking findings abort the
\* creation with a ClusterActionError that carries the finding list.
Validate(t) ==
    /\ pc[t] = "validate"
    /\ \/ \E m \in FaultMessages :
              Raise(t, Exc("Exception", m, None), "fault")
       \/ /\ op[t].suppress
          /\ Goto(t, "submit")
          /\ UNCHANGED <<result, hist>>
       \/ /\ ~op[t].suppress
          /\ \E f \in FindingLists :
                 IF Blocking(f, op[t].level)
                 THEN /\ result' = [result EXCEPT
                             ![t] = Catch(op[t].name,
                                          Exc("ClusterActionError",
                                              "Configuration is invalid", f))]
                      /\ hist' = [hist EXCEPT ![t].cause = "validation",
                                              ![t].found = f]
                      /\ pc' = [pc EXCEPT ![t] = "done"]
                 ELSE /\ Goto(t, "submit")
                      /\ hist' = [hist EXCEPT ![t].found = f]
                      /\ UNCHANGED result
    /\ UNCHANGED <<env, stack, op, snap, calls, synth>>

\* A stack as the deployment service records it right after creation.
CreatedStack ==
    [exists |-> TRUE, version |-> InstalledVersion, working |-> TRUE,
     fleet |-> "RUNNING"]

\* A stack whose creation failed.
FailedStack ==
    [exists |-> TRUE, version |-> InstalledVersion, working |-> FALSE,
     fleet |-> "STOPPED"]

\* Synthesis, then the one createStack request with the rollback flag.
SubmitStack(t) ==
    /\ pc[t] = "submit"
    /\ Log(t, Call("createStack", op[t].rollback))
    /\ \/ /\ \E m \in FaultMessages :
                 Raise(t, Exc("Exception", m, None), "fault")
          /\ UNCHANGED <<stack, snap>>
       \/ /\ stack[env].exists
          /\ Raise(t, Exc("ClusterActionError", "Cluster already exists", None),
                   "exists")
          /\ UNCHANGED <<stack, snap>>
       \/ /\ ~stack[env].exists
          /\ stack' = [stack EXCEPT ![env] = CreatedStack]
          /\ snap' = [snap EXCEPT ![t] = CreatedStack]
          /\ Goto(t, "info")
          /\ UNCHANGED <<result, hist>>
    /\ UNCHANGED <<env, op, synth>>

\* ---------------------------------------------------------- cluster.delete
\* The deletion request, issued after the stack was fetched.
DeleteStack(t) ==
    /\ pc[t] = "delete"
    /\ Log(t, Call("deleteStack", op[t].keep_logs))
    /\ \/ /\ \E m \in FaultMessages :
                 Raise(t, Exc("Exception", m, None), "fault")
          /\ UNCHANGED stack
       \/ /\ stack' = [stack EXCEPT ![env] = NoStack]
          /\ Goto(t, "info")
          /\ UNCHANGED <<result, hist>>
    /\ UNCHANGED <<env, op, snap, synth>>

\* ------------------------------------------------------------ list_clusters
\* A stack entry without its version tag, from which no ClusterStack can be
\* built.
MalformedStack ==
    [exists |-> TRUE, version |-> NoVersion, working |-> TRUE,
     fleet |-> "UNKNOWN"]

Malformed(s) == s.version = NoVersion

\* Stacks of other clusters the region may hold besides the cluster's own.
OtherStacks ==
    UNION {[1..n -> {CreatedStack, FailedStack, MalformedStack}] :
               n \in 0..MaxOthers}

\* The stacks of the ambient region, in the order the service enumerates them.
ListedStacks(others) ==
    (IF stack[env].exists THEN <<stack[env]>> ELSE <<>>) \o others

\* The enumeration as the service pages it, and list_pcluster_stacks()
\* draining every page into one list.
RECURSIVE Pages(_)
Pages(l) ==
    IF Len(l) <= PageSize THEN <<l>>
    ELSE <<SubSeq(l, 1, PageSize)>> \o Pages(SubSeq(l, PageSize + 1, Len(l)))

RECURSIVE Drain(_)
Drain(pages) ==
    IF pages = <<>> THEN <<>> ELSE Head(pages) \o Drain(Tail(pages))

\* A comprehension that skips the entries it cannot build.
ListBestEffort(stacks) ==
    LET good == SelectSeq(stacks, LAMBDA x : ~Malformed(x))
    IN  Success("list", [i \in 1..Len(good) |->
                             ClusterInfo(good[i], FALSE, "None")])

\* [ClusterInfo(ClusterStack(stack)) for stack in stacks] inside the try: one
\* entry that cannot be built turns the whole call into a failure.
ListResult(stacks) ==
    IF \E i \in 1..Len(stacks) : Malformed(stacks[i])
    THEN Catch("list", Exc("Exception", "malformed stack", None))
    ELSE Success("list", [i \in 1..Len(stacks) |->
                              ClusterInfo(stacks[i], FALSE, "None")])

ListStacks(t) ==
    /\ pc[t] = "list"
    /\ \E others \in OtherStacks :
           LET listed == ListedStacks(others)
               pages == Pages(listed)
               out == ListResult(Drain(pages))
           IN  /\ calls' = [calls EXCEPT ![t] =
                      [i \in 1..Len(pages) |-> Call("listStacks", FALSE)]]
               /\ \/ /\ \E m \in FaultMessages :
                            result' = [result EXCEPT
                                ![t] = Catch("list", Exc("Exception", m, None))]
                     /\ hist' = [hist EXCEPT ![t].cause = "fault",
                                             ![t].listed = listed]
                  \/ /\ result' = [result EXCEPT ![t] = out]
                     /\ hist' = [hist EXCEPT
                            ![t].cause = IF out.kind = "failure"
                                         THEN "malformed" ELSE "none",
                            ![t].listed = listed]
               /\ pc' = [pc EXCEPT ![t] = "done"]
    /\ UNCHANGED <<env, stack, op, snap, synth>>

\* ---------------------------------------------------------- specifications
\* Stacks a region can hold at start: none, a working stack of any version
\* and fleet status, or a failed stack.
InitStacks == {NoStack, FailedStack} \cup {s \in StackStates : s.working}
\* Stacks the second region can hold at start.
FewStacks == {NoStack, CreatedStack}

TypeInit ==
    /\ pc = [t \in Threads |-> "idle"]
    /\ op = [t \in Threads |-> NoOp]
    /\ snap = [t \in Threads |-> NoStack]
    /\ calls = [t \in Threads |-> <<>>]
    /\ result = [t \in Threads |-> NoResult]
    /\ hist = [t \in Threads |-> NoHist]

Init ==
    /\ synth = NoSynth
    /\ env = StartRegion
    /\ stack \in [Regions -> InitStacks]
    /\ stack["eu-west-1"] \in FewStacks
    /\ TypeInit

Step(t) ==
    \/ describe_cluster(t)
    \/ update_cluster(t)
    \/ delete_cluster(t)
    \/ list_clusters(t)
    \/ update_compute_fleet_status(t)
    \/ create_cluster(t)
    \/ ClusterStack(t)
    \/ ReturnClusterInfo(t)
    \/ UpdateVersionCheck(t)
    \/ FleetVersionGuard(t)
    \/ FleetDispatch(t)
    \/ ClusterStart(t)
    \/ ClusterStop(t)
    \/ Validate(t)
    \/ SubmitStack(t)
    \/ DeleteStack(t)
    \/ ListStacks(t)

\* One caller, one operation at a time.
Next == \E t \in SeqThreads : Step(t)

Spec == Init /\ [][Next]_vars

\* Two callers whose describe and delete operations interleave step by step.
ConcInit ==
    /\ synth = NoSynth
    /\ env = StartRegion
    /\ stack = [r \in Regions |-> CreatedStack]
    /\ TypeInit

ConcStep(t) ==
    \/ describe_cluster(t)
    \/ delete_cluster(t)
    \/ ClusterStack(t)
    \/ DeleteStack(t)
    \/ ReturnClusterInfo(t)

ConcNext == \E t \in Threads : ConcStep(t)

ConcSpec == ConcInit /\ [][ConcNext]_vars

\* ------------------------------------------------------- cdk_builder_utils
\* What the template-builder functions leave alone: the controller's state.
Controller == <<env, stack, pc, op, snap, calls, result, hist>>

\* The call about to be made: a function and one input out of args.
Input(fn, args) ==
    synth \in {[NoSynth EXCEPT !.fn = fn, !.arg = a] : a \in args}

\* The function applied to its input.
Called(fn, out) ==
    /\ synth.fn = fn
    /\ ~synth.called
    /\ synth' = [synth EXCEPT !.out = out, !.called = TRUE]
    /\ UNCHANGED Controller

Returned(fn) == synth.fn = fn /\ synth.called

\* ------------------------------------------------------- create_hash_suffix
\* Names of nodes, queues and compute resources that get a suffix.
Names ==
    {"HeadNode", "headnode", "queue1", "queue2", "q1", "q2", "a", "b",
     "queue1compute-resource-1"}

Digits == {"0", "1", "2", "3", "4", "5", "6", "7", "8", "9"}
HexLower == Digits \cup {"a", "b", "c", "d", "e", "f"}
HexUpper == Digits \cup {"A", "B", "C", "D", "E", "F"}
Letters ==
    {"a", "b", "c", "d", "e", "f", "g", "h", "i", "j", "k", "l", "m", "n",
     "o", "p", "q", "r", "s", "t", "u", "v", "w", "x", "y", "z",
     "A", "B", "C", "D", "E", "F", "G", "H", "I", "J", "K", "L", "M", "N",
     "O", "P", "Q", "R", "S", "T", "U", "V", "W", "X", "Y", "Z"}

\* sha1(name.encode("utf-8")).hexdigest(): the 40 hexadecimal digits of the
\* digest of each name, character by character.
Sha1Hex(name) ==
    CASE name = "headnode" ->
        <<"8", "f", "7", "1", "5", "a", "4", "3", "3", "8", "6", "c", "f",
         "4", "c", "3", "1", "b", "9", "e", "3", "8", "7", "7",
         "2", "a", "f", "e", "0", "9", "7", "d", "2", "2", "3",
         "5", "7", "4", "9", "7">>
      [] name = "queue1" ->
        <<"1", "5", "b", "3", "4", "2", "a", "f", "4", "2", "2", "4", "6",
         "b", "7", "0", "8", "1", "f", "6", "4", "d", "6", "f",
         "b", "f", "c", "1", "f", "1", "4", "a", "a", "d", "a",
         "d", "d", "c", "0", "b">>
      [] name = "queue2" ->
        <<"9", "2", "c", "4", "0", "5", "8", "4", "e", "3", "e", "7", "7",
         "6", "9", "a", "d", "4", "e", "5", "0", "9", "7", "b",
         "1", "3", "0", "d", "b", "d", "a", "d", "5", "1", "4",
         "f", "a", "1", "e", "e">>
      [] name = "q1" ->
        <<"e", "0", "4", "1", "7", "9", "2", "8", "e", "f", "b", "8", "2",
         "9", "d", "e", "b", "a", "0", "5", "6", "f", "c", "5",
         "3", "b", "a", "b", "f", "6", "7", "b", "9", "a", "a",
         "b", "8", "d", "1", "a">>
      [] name = "q2" ->
        <<"f", "2", "3", "7", "c", "b", "0", "3", "1", "c", "a", "6", "d",
         "f", "0", "f", "8", "a", "2", "f", "d", "1", "a", "7",
         "0", "0", "1", "8", "0", "1", "a", "5", "c", "0", "1",
         "f", "d", "5", "5", "1">>
      [] name = "a" ->
        <<"8", "6", "f", "7", "e", "4", "3", "7", "f", "a", "a", "5", "a",
         "7", "f", "c", "e", "1", "5", "d", "1", "d", "d", "c",
         "b", "9", "e", "a", "e", "a", "e", "a", "3", "7", "7",
         "6", "6", "7", "b", "8">>
      [] name = "b" ->
        <<"e", "9", "d", "7", "1", "f", "5", "e", "e", "7", "c", "9", "2",
         "d", "6", "d", "c", "9", "e", "9", "2", "f", "f", "d",
         "a", "d", "1", "7", "b", "8", "b", "d", "4", "9", "4",
         "1", "8", "f", "9", "8">>
      [] name = "queue1compute-resource-1" ->
        <<"d", "9", "9", "5", "8", "8", "4", "4", "f", "8", "a", "c", "d",
         "1", "9", "f", "e", "a", "2", "d", "d", "9", "2", "c",
         "f", "5", "5", "7", "4", "9", "2", "1", "7", "b", "b",
         "3", "8", "5", "c", "1">>

\* str.upper() and str.lower() on one character of a digest.
Upper(c) ==
    CASE c = "a" -> "A" [] c = "b" -> "B" [] c = "c" -> "C"
      [] c = "d" -> "D" [] c = "e" -> "E" [] c = "f" -> "F"
      [] OTHER -> c

Lower(c) ==
    CASE c = "A" -> "a" [] c = "B" -> "b" [] c = "C" -> "c"
      [] c = "D" -> "d" [] c = "E" -> "e" [] c = "F" -> "f"
      [] OTHER -> c

\* str.capitalize(): the first character upper-cased, the others lower-cased.
Capitalize(w) ==
    [i \in 1..Len(w) |-> IF i = 1 THEN Upper(w[i]) ELSE Lower(w[i])]

\* hexdigest()[:16]
SuffixLen == 16

HeadNodeName == <<"H", "e", "a", "d", "N", "o", "d", "e">>

\* The digest prefix left as hexdigest() writes it.
create_hash_suffix_plain(string_to_hash) ==
    IF string_to_hash = "HeadNode" THEN HeadNodeName
    ELSE SubSeq(Sha1Hex(string_to_hash), 1, SuffixLen)

create_hash_suffix(string_to_hash) ==
    IF string_to_hash = "HeadNode" THEN HeadNodeName
    ELSE Capitalize(SubSeq(Sha1Hex(string_to_hash), 1, SuffixLen))

HashSuffix ==
    /\ synth.fn = "create_hash_suffix"
    /\ Called("create_hash_suffix", create_hash_suffix(synth.arg))

\* ------------------------------------------------------ NodeIamResourcesBase
\* Text that the builder puts together is a sequence of pieces; an ARN is the
\* sequence of its fields, the resource name last.
SeqsUpTo(S, lo, hi) == UNION {[1..n -> S] : n \in lo..hi}

FormatArn(service, region, account, resource) ==
    <<"arn", "${AWS::Partition}", service, region, account, resource>>

policy_name_to_arn(policy_name) ==
    <<"arn", "${AWS::Partition}", "iam", "", "aws", "policy/", policy_name>>

get_resource_name_from_resource_arn(arn) == <<arn[Len(arn)]>>

NoArn == <<>>
ProfileArn ==
    <<"arn", "aws", "iam", "", "123456789012", "instance-profile/",
      "MyProfile">>
RoleArn == <<"arn", "aws", "iam", "", "123456789012", "role/", "MyRole">>
CustomPolicyArn == policy_name_to_arn("AmazonS3ReadOnlyAccess")

\* dev_settings.cookbook.chef_cookbook: absent, an S3 URL or another URL.
NoCookbook == [scheme |-> "", bucket |-> "", key |-> ""]
Cookbooks ==
    {NoCookbook,
     [scheme |-> "s3://", bucket |-> "cookbooks", key |-> "custom.tgz"],
     [scheme |-> "https://", bucket |-> "", key |-> ""]}

Configs ==
    [cloud_watch : BOOLEAN, scheduler : {"slurm", "awsbatch"},
     chef_cookbook : Cookbooks]

\* One S3 access grant: its list of resource patterns, which may be empty,
\* and its write flag.
Grants ==
    [resource_regex : SeqsUpTo({"data/*"}, 0, MaxPatterns),
     enable_write_access : BOOLEAN]

\* The head node and one queue, each with its IAM settings.
Nodes ==
    [kind : {"HeadNode"}, name : {"HeadNode"},
     instance_profile : {NoArn, ProfileArn}, instance_role : {NoArn, RoleArn},
     additional_iam_policy_arns :
         SeqsUpTo({CustomPolicyArn,
                   policy_name_to_arn("CloudWatchAgentServerPolicy")},
                  0, MaxArns),
     s3_access : SeqsUpTo(Grants, 0, MaxGrants)]
    \cup
    [kind : {"Compute"}, name : {"queue1"},
     instance_profile : {NoArn, ProfileArn}, instance_role : {NoArn, RoleArn},
     additional_iam_policy_arns :
         SeqsUpTo({CustomPolicyArn,
                   policy_name_to_arn("CloudWatchAgentServerPolicy")},
                  0, MaxArns),
     s3_access : SeqsUpTo(Grants, 0, MaxGrants)]

\* A resource of the synthesized document, and a statement of a policy.
Resource(type, id) ==
    [type |-> type, id |-> id, policy_name |-> "",
     managed_policy_arns |-> <<>>, statements |-> <<>>, roles |-> <<>>]

PolicyStatement(sid, actions, resources) ==
    [sid |-> sid, actions |-> actions, resources |-> resources]

CfnPolicy(id, policy_name, statements, role_ref) ==
    [Resource("Policy", id) EXCEPT !.policy_name = policy_name,
                                   !.statements = statements,
                                   !.roles = <<role_ref>>]

\* The logical id f"{prefix}{suffix}".
LogicalId(prefix, suffix) == <<prefix>> \o suffix

_add_instance_profile(role_ref, name) ==
    [Resource("InstanceProfile", name) EXCEPT !.roles = <<role_ref>>]

Range(q) == {q[i] : i \in 1..Len(q)}

\* A role that always gets the logging-agent policy.
ManagedPoliciesAlwaysCloudWatch(config, node) ==
    Range(node.additional_iam_policy_arns)
    \cup {policy_name_to_arn("CloudWatchAgentServerPolicy")}
    \cup (IF config.scheduler = "awsbatch"
          THEN {policy_name_to_arn("AWSBatchFullAccess")} ELSE {})

\* additional_iam_policies: set(node.iam.additional_iam_policy_arns) and the
\* two feature policies added to it.
ManagedPolicies(config, node) ==
    Range(node.additional_iam_policy_arns)
    \cup (IF config.cloud_watch
          THEN {policy_name_to_arn("CloudWatchAgentServerPolicy")} ELSE {})
    \cup (IF config.scheduler = "awsbatch"
          THEN {policy_name_to_arn("AWSBatchFullAccess")} ELSE {})

\* list(a_set): the elements once each, in an order the runtime picks.
Orders(S) ==
    {q \in [1..Cardinality(S) -> S] :
         \A i, j \in 1..Cardinality(S) : q[i] = q[j] => i = j}

_add_node_role(arns, name) ==
    [Resource("Role", name) EXCEPT !.managed_policy_arns = arns]

S3GetObj ==
    PolicyStatement("S3GetObj", <<"s3:GetObject">>,
        <<FormatArn("s3", "", "", "${AWS::Region}-aws-parallelcluster/*")>>)

_build_policy(kind) ==
    IF kind = "HeadNode"
    THEN <<PolicyStatement("Ec2",
               <<"ec2:DescribeInstanceAttribute", "ec2:DescribeInstances",
                 "ec2:DescribeInstanceStatus", "ec2:CreateTags",
                 "ec2:DescribeVolumes", "ec2:AttachVolume">>, <<<<"*">>>>),
           S3GetObj,
           PolicyStatement("ResourcesS3Bucket", <<"s3:*">>,
               <<FormatArn("s3", "", "", "cluster-bucket"),
                 FormatArn("s3", "", "", "cluster-bucket/artifacts/*")>>),
           PolicyStatement("CloudFormation",
               <<"cloudformation:DescribeStacks",
                 "cloudformation:DescribeStackResource",
                 "cloudformation:SignalResource">>,
               <<FormatArn("cloudformation", "${AWS::Region}",
                           "${AWS::AccountId}", "stack/${AWS::StackName}/*"),
                 FormatArn("cloudformation", "${AWS::Region}",
                           "${AWS::AccountId}",
                           "stack/${AWS::StackName}-*/*")>>),
           PolicyStatement("DcvLicense", <<"s3:GetObject">>,
               <<FormatArn("s3", "", "", "dcv-license.${AWS::Region}/*")>>)>>
    ELSE <<PolicyStatement("Ec2", <<"ec2:DescribeInstanceAttribute">>,
               <<<<"*">>>>),
           S3GetObj>>

_add_pcluster_policies_to_role(kind, role_ref, name) ==
    CfnPolicy(name, "parallelcluster", _build_policy(kind), role_ref)

\* chef_cookbook.startswith("s3://"), False when there is no cookbook.
_condition_custom_cookbook_with_s3_url(config) ==
    config.chef_cookbook.scheme = "s3://"

_add_custom_cookbook_policies_to_role(config, role_ref, name) ==
    CfnPolicy(name, "CustomCookbookS3Url",
        <<PolicyStatement("", <<"s3:GetObject">>,
              <<FormatArn("s3", "", "", config.chef_cookbook.bucket)
                \o <<config.chef_cookbook.key>>>>),
          PolicyStatement("", <<"s3:GetBucketLocation">>,
              <<FormatArn("s3", "", "", config.chef_cookbook.bucket)>>)>>,
        role_ref)

_condition_create_s3_access_policies(node) == node.s3_access # <<>>

\* The ARNs of the patterns of the grants whose write flag is w, in order.
RECURSIVE S3Resources(_, _)
S3Resources(grants, w) ==
    IF grants = <<>> THEN <<>>
    ELSE (IF Head(grants).enable_write_access = w
          THEN [i \in 1..Len(Head(grants).resource_regex) |->
                    FormatArn("s3", "", "", Head(grants).resource_regex[i])]
          ELSE <<>>)
         \o S3Resources(Tail(grants), w)

_add_s3_access_policies_to_role(node, role_ref, name) ==
    LET read_only_s3_resources == S3Resources(node.s3_access, FALSE)
        read_write_s3_resources == S3Resources(node.s3_access, TRUE)
    IN  CfnPolicy(name, "S3Access",
            (IF read_only_s3_resources # <<>>
             THEN <<PolicyStatement("S3Read", <<"s3:Get*", "s3:List*">>,
                                    read_only_s3_resources)>>
             ELSE <<>>)
            \o (IF read_write_s3_resources # <<>>
                THEN <<PolicyStatement("S3ReadWrite", <<"s3:*">>,
                                       read_write_s3_resources)>>
                ELSE <<>>),
            role_ref)

\* The role looked at before the instance profile.
BranchRoleFirst(node) ==
    IF node.instance_role # NoArn THEN "role"
    ELSE IF node.instance_profile # NoArn THEN "profile"
    ELSE "managed"

\* if node.instance_profile: ... elif node.instance_role: ... else: ...
Branch(node) ==
    IF node.instance_profile # NoArn THEN "profile"
    ELSE IF node.instance_role # NoArn THEN "role"
    ELSE "managed"

\* The resources of one node in creation order, and the two references the
\* construct keeps; arns is the order list() gave the managed policies.
_add_role_and_policies(config, node, arns) ==
    LET suffix == create_hash_suffix(node.name)
        role == _add_node_role(arns, LogicalId("Role", suffix))
        own == _add_instance_profile(role.id,
                                     LogicalId("InstanceProfile", suffix))
        wrap == _add_instance_profile(
                    get_resource_name_from_resource_arn(node.instance_role),
                    LogicalId("InstanceProfile", suffix))
    IN  CASE Branch(node) = "profile" ->
                [resources |-> <<>>,
                 instance_profile |->
                     get_resource_name_from_resource_arn(
                         node.instance_profile),
                 instance_role |-> <<>>]
          [] Branch(node) = "role" ->
                [resources |-> <<wrap>>, instance_profile |-> wrap.id,
                 instance_role |-> <<>>]
          [] Branch(node) = "managed" ->
                [resources |->
                     <<role,
                       _add_pcluster_policies_to_role(node.kind, role.id,
                           LogicalId("ParallelClusterPolicies", suffix))>>
                     \o (IF _condition_custom_cookbook_with_s3_url(config)
                         THEN <<_add_custom_cookbook_policies_to_role(
                                    config, role.id,
                                    LogicalId("CustomCookbookPolicies",
                                              suffix))>>
                         ELSE <<>>)
                     \o (IF _condition_create_s3_access_policies(node)
                         THEN <<_add_s3_access_policies_to_role(node, role.id,
                                    LogicalId("S3AccessPolicies", suffix))>>
                         ELSE <<>>)
                     \o <<own>>,
                 instance_profile |-> own.id,
                 instance_role |-> role.id]

NodeIamResources ==
    /\ synth.fn = "NodeIamResources"
    /\ \E arns \in Orders(ManagedPolicies(synth.arg.config,
                                           synth.arg.node)) :
           Called("NodeIamResources",
                  _add_role_and_policies(synth.arg.config, synth.arg.node,
                                         arns))

\* ------------------------------------------------------- shared storage
StorageTypes == {"EBS", "RAID", "EFS", "FSX"}

\* An option string is its fields and the commas between them.
RECURSIVE Join(_)
Join(fields) ==
    IF Len(fields) = 0 THEN <<>>
    ELSE IF Len(fields) = 1 THEN <<fields[1]>>
    ELSE <<fields[1], ",">> \o Join(Tail(fields))

\* str.split(","): the fields between the commas, one field for no comma.
RECURSIVE Split(_)
Split(str) ==
    IF \A i \in 1..Len(str) : str[i] # "," THEN <<str>>
    ELSE LET k == CHOOSE i \in 1..Len(str) :
                      /\ str[i] = ","
                      /\ \A j \in 1..(i - 1) : str[j] # ","
         IN  <<SubSeq(str, 1, k - 1)>> \o Split(SubSeq(str, k + 1, Len(str)))

default_storage_options(storage_type) ==
    CASE storage_type = "EBS" ->
           <<"NONE", ",", "NONE", ",", "NONE", ",", "NONE", ",", "NONE">>
      [] storage_type = "RAID" ->
           <<"NONE", ",", "NONE", ",", "NONE", ",", "NONE", ",", "NONE",
             ",", "NONE", ",", "NONE", ",", "NONE", ",", "NONE">>
      [] storage_type = "EFS" ->
           <<"NONE", ",", "NONE", ",", "NONE", ",", "NONE", ",", "NONE",
             ",", "NONE", ",", "NONE", ",", "NONE", ",", "NONE">>
      [] storage_type = "FSX" ->
           <<"NONE", ",", "NONE", ",", "NONE", ",", "NONE", ",", "NONE",
             ",", "NONE", ",", "NONE", ",", "NONE", ",", "NONE",
             ",", "NONE", ",", "NONE", ",", "NONE", ",", "NONE",
             ",", "NONE", ",", "NONE", ",", "NONE", ",", "NONE">>

\* The field count of a type never varies with the configuration: the stack
\* builder writes as many fields for a configured storage as the default has.
ConfiguredArity(storage_type) ==
    Len(Split(default_storage_options(storage_type)))

\* The option strings of one type: empty when none is configured, else a
\* mount directory followed by the other fields.
OptionStrings(storage_type) ==
    {<<>>}
    \cup {Join([i \in 1..ConfiguredArity(storage_type) |->
                    IF i = 1 THEN m ELSE v]) :
              m \in {"/shared", "/data"}, v \in {"NONE", "1"}}

StorageOptions ==
    {o \in [StorageTypes -> UNION {OptionStrings(ty) : ty \in StorageTypes}] :
         \A ty \in StorageTypes : o[ty] \in OptionStrings(ty)}

\* The configured string whatever it holds, the empty one too.
get_shared_storage_options_no_default(shared_storage_options, storage_type) ==
    shared_storage_options[storage_type]

get_shared_storage_options_by_type(shared_storage_options, storage_type) ==
    IF shared_storage_options[storage_type] # <<>>
    THEN shared_storage_options[storage_type]
    ELSE default_storage_options(storage_type)

SharedStorageOptions ==
    /\ synth.fn = "get_shared_storage_options_by_type"
    /\ Called("get_shared_storage_options_by_type",
              get_shared_storage_options_by_type(
                  synth.arg.shared_storage_options, synth.arg.storage_type))

\* ------------------------------------------------ get_default_instance_tags
\* "{0}".format(n) for the small counts of the model.
Str(n) == <<"0", "1", "2", "3", "4", "5", "6", "7", "8", "9">>[n + 1]

\* The storage map: some storage types, each with the list of its ids.
StorageIds ==
    UNION {[present -> SeqsUpTo({"id"}, 0, MaxIds)] :
               present \in SUBSET StorageTypes}

\* Attributes a node may lack: "absent" stands for hasattr() being false.
TagNodes ==
    [architecture : {"absent", "x86_64"},
     efa : {"absent", "disabled", "enabled"}]

TagInputs ==
    [stack_name : {"c1"}, os : {"alinux2"}, scheduler : {"slurm"},
     is_intel_hpc_platform_enabled : BOOLEAN, node : TagNodes,
     node_type : {"HeadNode", "Compute"}, shared_storage_ids : StorageIds,
     raw_dict : BOOLEAN]

Tag(key, value) == [key |-> key, value |-> value]

\* The counts of EFS and EBS exchanged.
filesystem_swapped(shared_storage_ids) ==
    <<"efs=", Str(Len(shared_storage_ids["EBS"])),
      ", multiebs=", Str(Len(shared_storage_ids["EFS"])),
      ", raid=", Str(Len(shared_storage_ids["RAID"])),
      ", fsx=", Str(Len(shared_storage_ids["FSX"]))>>

\* "efs={efs}, multiebs={multiebs}, raid={raid}, fsx={fsx}".format(...)
filesystem(shared_storage_ids) ==
    <<"efs=", Str(Len(shared_storage_ids["EFS"])),
      ", multiebs=", Str(Len(shared_storage_ids["EBS"])),
      ", raid=", Str(Len(shared_storage_ids["RAID"])),
      ", fsx=", Str(Len(shared_storage_ids["FSX"]))>>

\* The tags in the order the dict holds them, as a dict or as CfnTag objects;
\* a storage type missing from the map raises KeyError.
get_default_instance_tags(in) ==
    IF DOMAIN in.shared_storage_ids # StorageTypes
    THEN [raised |-> "KeyError", form |-> "", tags |-> <<>>]
    ELSE [raised |-> "",
          form |-> IF in.raw_dict THEN "dict" ELSE "CfnTag",
          tags |->
              <<Tag("Name", <<in.node_type>>),
                Tag("parallelcluster:cluster-name", <<in.stack_name>>),
                Tag("parallelcluster:node-type", <<in.node_type>>),
                Tag("parallelcluster:attributes",
                    <<in.os, ", ", in.scheduler, ", ",
                      Str(InstalledVersion[1]), ".",
                      Str(InstalledVersion[2]), ".",
                      Str(InstalledVersion[3]), ", ",
                      IF in.node.architecture # "absent"
                      THEN in.node.architecture ELSE "NONE">>),
                Tag("parallelcluster:networking",
                    <<"EFA=", IF in.node.efa = "enabled"
                              THEN "true" ELSE "NONE">>),
                Tag("parallelcluster:filesystem",
                    filesystem(in.shared_storage_ids))>>
              \o (IF in.is_intel_hpc_platform_enabled
                  THEN <<Tag("parallelcluster:intel-hpc",
                             <<"enable_intel_hpc_platform=true">>)>>
                  ELSE <<>>)]

DefaultInstanceTags ==
    /\ synth.fn = "get_default_instance_tags"
    /\ Called("get_default_instance_tags",
              get_default_instance_tags(synth.arg))

\* ------------------------------------------- get_queue_security_groups_full
\* The reference of the security group the stack creates for the compute
\* nodes; a user writes group ids, never this reference.
ManagedGroupRef == "ComputeSecurityGroup.ref"
GroupIds == {"sg-1", "sg-2"}

\* queue.networking: both lists may be empty (or None).
QueueNetworkings ==
    [security_groups : SeqsUpTo(GroupIds, 0, MaxGroups),
     additional_security_groups : SeqsUpTo(GroupIds, 0, MaxGroups)]

\* The managed group put first whatever the queue declares.
get_queue_security_groups_always_managed(managed_ref, networking) ==
    <<managed_ref>>
    \o networking.security_groups
    \o networking.additional_security_groups

get_queue_security_groups_full(managed_ref, networking) ==
    (IF networking.security_groups # <<>>
     THEN networking.security_groups
     ELSE <<managed_ref>>)
    \o networking.additional_security_groups

QueueSecurityGroups ==
    /\ synth.fn = "get_queue_security_groups_full"
    /\ Called("get_queue_security_groups_full",
              get_queue_security_groups_full(ManagedGroupRef, synth.arg))

\* ---------------------------------------------------- check_cluster_version
\* Version strings as the stack records them, piece by piece; the empty one
\* is a stack without a recorded version.
NoVersionText == <<>>
VersionTexts ==
    {NoVersionText,
     <<"2", ".", "10", ".", "0">>, <<"2", ".", "11", ".", "0">>,
     <<"3", ".", "0", ".", "0">>, <<"3", ".", "1", ".", "0">>,
     <<"3", ".", "10", ".", "4">>, <<"4", ".", "0", ".", "0">>,
     <<"4", ".", "1", ".", "0">>, <<"10", ".", "0", ".", "0">>}

\* int() of one release segment.
Num(d) ==
    CASE d = "0" -> 0 [] d = "1" -> 1 [] d = "2" -> 2 [] d = "3" -> 3
      [] d = "4" -> 4 [] d = "10" -> 10 [] d = "11" -> 11

\* packaging.version.parse of a release "X.Y.Z": its three numbers.
parse(text) == <<Num(text[1]), Num(text[3]), Num(text[5])>>

\* An upper limit that lets 4.0.0 in.
check_cluster_version_inclusive(text) ==
    /\ text # NoVersionText
    /\ ~VersionLess(parse(<<"4", ".", "0", ".", "0">>), parse(text))
    /\ ~VersionLess(parse(text), parse(<<"3", ".", "0", ".", "0">>))

\* version and parse(<<"4", ".", "0", ".", "0">>) > parse(version) >= parse(<<"3", ".", "0", ".", "0">>)
check_cluster_version(text) ==
    /\ text # NoVersionText
    /\ VersionLess(parse(text), parse(<<"4", ".", "0", ".", "0">>))
    /\ ~VersionLess(parse(text), parse(<<"3", ".", "0", ".", "0">>))

\* Both version tests applied to one cluster; the fleet guard parses the
\* version unguarded and is applied to recorded versions only.
CheckClusterVersion ==
    /\ synth.fn = "check_cluster_version"
    /\ Called("check_cluster_version",
              [accepted |-> check_cluster_version(synth.arg),
               fleet_guard |->
                   IF synth.arg = NoVersionText THEN "not applied"
                   ELSE IF _is_version_2([version |-> parse(synth.arg)])
                        THEN "refused" ELSE "passed"])

\* ------------------------------------------------- synthesis specification
SynthInputs ==
    \/ Input("create_hash_suffix", Names)
    \/ Input("NodeIamResources", [config : Configs, node : Nodes])
    \/ Input("get_shared_storage_options_by_type",
             [shared_storage_options : StorageOptions,
              storage_type : StorageTypes])
    \/ Input("get_default_instance_tags", TagInputs)
    \/ Input("get_queue_security_groups_full", QueueNetworkings)
    \/ Input("check_cluster_version", VersionTexts)

SynthInit ==
    /\ SynthInputs
    /\ env = StartRegion
    /\ stack = [r \in Regions |-> NoStack]
    /\ TypeInit

SynthNext ==
    \/ HashSuffix
    \/ NodeIamResources
    \/ SharedStorageOptions
    \/ DefaultInstanceTags
    \/ QueueSecurityGroups
    \/ CheckClusterVersion

SynthSpec == SynthInit /\ [][SynthNext]_vars

\* ------------------------------------------------------------- properties
Done(t, name) == pc[t] = "done" /\ op[t].name = name

\* Number of calls to one provider API in the current invocation.
Count(t, api) == Cardinality({i \in 1..Len(calls[t]) : calls[t][i].api = api})

PreAtLeast3(t) ==
    hist[t].pre.exists /\ ~VersionLess(hist[t].pre.version, <<3, 0, 0>>)

FleetUnchanged(t) == stack[hist[t].target] = hist[t].pre

\* C1 (as stated): update_cluster on a stack whose recorded version differs
\* from the installed version returns a failure and the invocation issued no
\* provider call at all.
C1_NoProviderCalls ==
    \A t \in Threads :
        (Done(t, "update") /\ hist[t].pre.exists
            /\ hist[t].pre.version # InstalledVersion)
        => (result[t].kind = "failure" /\ calls[t] = <<>>)

\* C1 (amended): update_cluster on a stack whose recorded version differs from
\* the installed version returns a failure, and the only provider call of the
\* invocation is the one describeStack read that fetches the recorded version.
C1_VersionGate ==
    \A t \in Threads :
        (Done(t, "update") /\ hist[t].pre.exists
            /\ hist[t].pre.version # InstalledVersion)
        => /\ result[t].kind = "failure"
           /\ Len(calls[t]) = 1
           /\ calls[t][1].api = "describeStack"

C1_Witness ==
    /\ Done(1, "update")
    /\ hist[1].pre.exists
    /\ hist[1].pre.version = <<3, 1, 0>>
    /\ hist[1].cause = "version"
    /\ result[1].kind = "failure"

\* C2: update_compute_fleet_status against a cluster created below 3.0.0
\* returns a failure for every requested status and every fleet status, the
\* fleet status is what it was before the call, and neither start nor stop
\* touched the fleet.
C2_FleetGuard ==
    \A t \in Threads :
        (Done(t, "fleet") /\ hist[t].pre.exists
            /\ VersionLess(hist[t].pre.version, <<3, 0, 0>>))
        => /\ result[t].kind = "failure"
           /\ FleetUnchanged(t)
           /\ Count(t, "readFleetStatus") = 0
           /\ Count(t, "updateFleetStatus") = 0

C2_Witness ==
    /\ Done(1, "fleet")
    /\ hist[1].pre.exists
    /\ hist[1].pre.version = <<2, 10, 0>>
    /\ hist[1].pre.fleet = "STOPPED"
    /\ op[1].status = "START_REQUESTED"
    /\ hist[1].cause = "version"

\* C3: for a cluster at version >= 3.0.0 whose fleet is STOPPED, STOPPING,
\* STOP_REQUESTED or UNKNOWN, a START_REQUESTED request that meets no provider
\* fault succeeds and leaves the fleet in START_REQUESTED.
C3_StartAccepted ==
    \A t \in Threads :
        (Done(t, "fleet") /\ PreAtLeast3(t)
            /\ op[t].status = "START_REQUESTED"
            /\ hist[t].pre.fleet \notin {"RUNNING", "STARTING", "START_REQUESTED"}
            /\ hist[t].cause # "fault")
        => /\ result[t].kind = "ok"
           /\ stack[hist[t].target].fleet = "START_REQUESTED"

C3_Witness ==
    /\ Done(1, "fleet")
    /\ PreAtLeast3(1)
    /\ op[1].status = "START_REQUESTED"
    /\ hist[1].pre.fleet = "STOPPED"
    /\ result[1].kind = "ok"
    /\ stack[hist[1].target].fleet = "START_REQUESTED"

\* C4: for a cluster at version >= 3.0.0 whose fleet is RUNNING, STARTING,
\* START_REQUESTED or UNKNOWN, a STOP_REQUESTED request that meets no provider
\* fault succeeds and leaves the fleet in STOP_REQUESTED.
C4_StopAccepted ==
    \A t \in Threads :
        (Done(t, "fleet") /\ PreAtLeast3(t)
            /\ op[t].status = "STOP_REQUESTED"
            /\ hist[t].pre.fleet \notin {"STOPPED", "STOPPING", "STOP_REQUESTED"}
            /\ hist[t].cause # "fault")
        => /\ result[t].kind = "ok"
           /\ stack[hist[t].target].fleet = "STOP_REQUESTED"

C4_Witness ==
    /\ Done(1, "fleet")
    /\ PreAtLeast3(1)
    /\ op[1].status = "STOP_REQUESTED"
    /\ hist[1].pre.fleet = "UNKNOWN"
    /\ result[1].kind = "ok"
    /\ stack[hist[1].target].fleet = "STOP_REQUESTED"

\* C5: a redundant fleet request never changes the fleet status: a start
\* request met by RUNNING, STARTING or START_REQUESTED, and a stop request met
\* by STOPPED, STOPPING or STOP_REQUESTED, writes nothing and leaves the status
\* as it was.
C5_RedundantNoOp ==
    \A t \in Threads :
        (Done(t, "fleet") /\ hist[t].pre.exists
            /\ \/ /\ op[t].status = "START_REQUESTED"
                  /\ hist[t].pre.fleet \in {"RUNNING", "STARTING", "START_REQUESTED"}
               \/ /\ op[t].status = "STOP_REQUESTED"
                  /\ hist[t].pre.fleet \in {"STOPPED", "STOPPING", "STOP_REQUESTED"})
        => /\ FleetUnchanged(t)
           /\ Count(t, "updateFleetStatus") = 0

C5_Witness ==
    /\ Done(1, "fleet")
    /\ PreAtLeast3(1)
    /\ op[1].status = "START_REQUESTED"
    /\ hist[1].pre.fleet = "STARTING"
    /\ Count(1, "readFleetStatus") = 1
    /\ result[1].kind = "ok"
    /\ stack[hist[1].target].fleet = "STARTING"

NotSupported == "Unable to update the compute fleet. Not supported."

Unsupported(t) == op[t].status \notin {"START_REQUESTED", "STOP_REQUESTED"}

\* C6 (as stated): update_compute_fleet_status with a requested status other
\* than START_REQUESTED and STOP_REQUESTED returns the failure saying that the
\* status is not supported, and the fleet status is unchanged.
C6_AlwaysNotSupported ==
    \A t \in Threads :
        (Done(t, "fleet") /\ Unsupported(t))
        => /\ result[t].kind = "failure"
           /\ result[t].message = NotSupported
           /\ FleetUnchanged(t)

\* C6 (amended): such a request returns a failure and leaves the fleet status
\* unchanged; the failure says that the status is not supported when the
\* cluster exists at version >= 3.0.0 and the describe call met no fault, and
\* is the not-found, provider-fault or version failure otherwise.
C6_UnsupportedStatus ==
    \A t \in Threads :
        (Done(t, "fleet") /\ Unsupported(t))
        => /\ result[t].kind = "failure"
           /\ FleetUnchanged(t)
           /\ Count(t, "updateFleetStatus") = 0
           /\ (PreAtLeast3(t) /\ hist[t].cause # "fault")
                  <=> result[t].message = NotSupported

C6_Witness ==
    /\ Done(1, "fleet")
    /\ op[1].status = "RUNNING"
    /\ PreAtLeast3(1)
    /\ hist[1].pre.fleet = "STOPPED"
    /\ result[1].kind = "failure"
    /\ result[1].message = NotSupported

\* C7: create with the validators not suppressed: when the oracle reports a
\* finding at or above the threshold, create returns a failure carrying the
\* finding list and made no provider call; when every finding is below the
\* threshold, create went on and submitted exactly one createStack request.
C7_ValidationGate ==
    \A t \in Threads :
        (Done(t, "create") /\ ~op[t].suppress /\ hist[t].found # None)
        => IF \E i \in 1..Len(hist[t].found) :
                  SeverityRank(hist[t].found[i]) >= SeverityRank(op[t].level)
           THEN /\ result[t].kind = "failure"
                /\ result[t].validation_failures = hist[t].found
                /\ calls[t] = <<>>
           ELSE Count(t, "createStack") = 1

C7_Witness ==
    /\ Done(1, "create")
    /\ ~op[1].suppress
    /\ op[1].level = "ERROR"
    /\ hist[1].found = <<"WARNING", "ERROR">>
    /\ result[1].kind = "failure"
    /\ calls[1] = <<>>

\* Scenario C, first half: only warnings under threshold ERROR, one submission.
C7_WarningsProceed ==
    /\ Done(1, "create")
    /\ ~op[1].suppress
    /\ op[1].level = "ERROR"
    /\ hist[1].found = <<"WARNING">>
    /\ result[1].kind = "info"
    /\ Count(1, "createStack") = 1

\* C8: every operation is total: whatever fault the provider, the validator
\* or the configuration loading raises, an invocation ends with a success
\* value or an ApiFailure, and an invocation that met an error ends with an
\* ApiFailure; no exception leaves the operation.
C8_Total ==
    \A t \in Threads :
        pc[t] = "done"
        => /\ result[t].kind \in {"info", "list", "ok", "failure"}
           /\ hist[t].cause # "none" => result[t].kind = "failure"

C8_Witness ==
    /\ Done(1, "delete")
    /\ hist[1].cause = "fault"
    /\ Count(1, "deleteStack") = 1
    /\ result[1].kind = "failure"

\* C9: every failure value carries a non-empty message; a failure caused by
\* validation carries the non-empty finding list, a failure of any other
\* cause carries an empty one.
C9_FailureShape ==
    \A t \in Threads :
        (pc[t] = "done" /\ result[t].kind = "failure")
        => /\ result[t].message # ""
           /\ IF hist[t].cause = "validation"
              THEN /\ result[t].validation_failures # <<>>
                   /\ result[t].validation_failures = hist[t].found
              ELSE result[t].validation_failures = <<>>

C9_Witness ==
    /\ Done(1, "describe")
    /\ hist[1].cause = "fault"
    /\ result[1].kind = "failure"
    /\ result[1].message = "Something went wrong."
    /\ result[1].validation_failures = <<>>

\* C10: when operations run concurrently with different region arguments,
\* every provider call of an operation uses that operation's own region.
C10_OwnRegion ==
    \A t \in Threads :
        op[t].region # NoRegion
        => \A i \in 1..Len(calls[t]) : calls[t][i].region = op[t].region

\* C11: operations are stateless between invocations: the region the provider
\* calls of an invocation use, and the region its result reports, depend only
\* on the invocation's arguments, never on earlier invocations; an invocation
\* with an empty region argument therefore works in the region the process was
\* started with, whatever was called before.
C11_Stateless ==
    \A t \in Threads :
        LET own == IF op[t].region = NoRegion THEN StartRegion
                   ELSE op[t].region
        IN  /\ \A i \in 1..Len(calls[t]) : calls[t][i].region = own
            /\ \A i \in 1..Len(result[t].infos) :
                   result[t].infos[i].region = own

\* What describe_cluster returns for a stack, and the calls it makes, when
\* nothing fails.
DescribeOutcomes(s) ==
    {Success("info", <<ClusterInfo(s, TRUE, live)>>) :
         live \in {"None", "i-head"}}

DescribeCalls(s) == <<Call("describeStack", FALSE)>> \o LiveCalls(s)

Mutating == {"createStack", "deleteStack", "updateFleetStatus"}

\* C12: when the recorded version equals the installed version, update_cluster
\* behaves like describe_cluster: on the same stack both return the same
\* ClusterInfo after the same read calls, and neither issues a mutating call.
C12_UpdateLikeDescribe ==
    \A t \in Threads :
        (/\ pc[t] = "done"
         /\ \/ op[t].name = "describe"
            \/ op[t].name = "update" /\ hist[t].pre.version = InstalledVersion
         /\ hist[t].pre.exists
         /\ hist[t].cause # "fault")
        => /\ result[t] \in DescribeOutcomes(hist[t].pre)
           /\ calls[t] = DescribeCalls(hist[t].pre)
           /\ \A i \in 1..Len(calls[t]) : calls[t][i].api \notin Mutating

C12_Witness ==
    /\ Done(1, "update")
    /\ hist[1].pre.exists
    /\ hist[1].pre.version = InstalledVersion
    /\ hist[1].pre.fleet = "STOPPED"
    /\ result[1].kind = "info"
    /\ result[1].infos[1].head_node = "i-head"

\* C13: list_clusters is all-or-nothing: it returns one ClusterInfo for every
\* stack the service enumerates, in the enumerated order and over all pages,
\* or a single failure; when one entry cannot be built the call fails, and a
\* shorter list is never returned.
C13_AllOrNothing ==
    \A t \in Threads :
        Done(t, "list")
        => LET listed == hist[t].listed
               bad == \E i \in 1..Len(listed) : Malformed(listed[i])
           IN  /\ \/ /\ result[t].kind = "list"
                     /\ Len(result[t].infos) = Len(listed)
                     /\ \A i \in 1..Len(listed) :
                            /\ result[t].infos[i].version = listed[i].version
                            /\ result[t].infos[i].working = listed[i].working
                  \/ /\ result[t].kind = "failure"
                     /\ result[t].infos = <<>>
               /\ bad => result[t].kind = "failure"
               /\ (~bad /\ hist[t].cause # "fault") => result[t].kind = "list"

C13_Witness ==
    /\ Done(1, "list")
    /\ Len(hist[1].listed) = 3
    /\ Malformed(hist[1].listed[3])
    /\ ~Malformed(hist[1].listed[1])
    /\ Len(calls[1]) = 2
    /\ hist[1].cause = "malformed"
    /\ result[1].kind = "failure"

\* A full list over two pages.
C13_FullList ==
    /\ Done(1, "list")
    /\ Len(hist[1].listed) = 3
    /\ result[1].kind = "list"
    /\ Len(result[1].infos) = 3

\* C14: delete_cluster fetches the stack first, then issues exactly one
\* deletion request that carries the keep_logs flag (True when the argument is
\* left out); the ClusterInfo it returns shows the stack as it was before the
\* deletion; a failing fetch or a failing deletion yields a failure, and a
\* failing fetch issues no deletion.
C14_DeleteOrder ==
    \A t \in Threads :
        Done(t, "delete")
        => LET del == Count(t, "deleteStack")
           IN  /\ Len(calls[t]) >= 1
               /\ calls[t][1].api = "describeStack"
               /\ del <= 1
               /\ del = 1 => /\ calls[t][2].api = "deleteStack"
                             /\ calls[t][2].flag = (op[t].keep_arg # "false")
               /\ result[t].kind \in {"info", "failure"}
               /\ result[t].kind = "info"
                  => /\ del = 1
                     /\ hist[t].pre.exists
                     /\ result[t].infos[1].version = hist[t].pre.version
                     /\ result[t].infos[1].working = hist[t].pre.working
                     /\ stack[hist[t].target] = NoStack
               /\ (hist[t].pre.exists /\ hist[t].cause = "none")
                  => result[t].kind = "info"
               /\ hist[t].cause # "none" => result[t].kind = "failure"
               /\ del = 0 => /\ result[t].kind = "failure"
                             /\ stack[hist[t].target] = hist[t].pre

C14_Witness ==
    /\ Done(1, "delete")
    /\ op[1].keep_arg = "omitted"
    /\ Len(calls[1]) >= 2
    /\ calls[1][2].api = "deleteStack"
    /\ calls[1][2].flag = TRUE
    /\ result[1].kind = "info"
    /\ result[1].infos[1].working
    /\ stack[hist[1].target] = NoStack

\* C15 as stated: the suffix of "HeadNode" is "HeadNode"; the suffix of any
\* other name has 16 characters and starts with an alphabetic letter.
C15_LetterLed ==
    Returned("create_hash_suffix")
    => IF synth.arg = "HeadNode" THEN synth.out = HeadNodeName
       ELSE /\ synth.out = create_hash_suffix(synth.arg)
            /\ Len(synth.out) = 16
            /\ synth.out[1] \in Letters

\* C15 amended: the suffix of "HeadNode" is "HeadNode"; the suffix of any
\* other name is a function of the name alone and has 16 characters, the
\* first a digit or an upper-case hexadecimal letter, the other 15 lower-case
\* hexadecimal digits.
C15_HexLed ==
    Returned("create_hash_suffix")
    => IF synth.arg = "HeadNode" THEN synth.out = HeadNodeName
       ELSE /\ synth.out = create_hash_suffix(synth.arg)
            /\ Len(synth.out) = 16
            /\ synth.out[1] \in HexUpper
            /\ \A i \in 2..16 : synth.out[i] \in HexLower

\* The suffix of "queue1" starts with the digit 1.
C15_Witness ==
    /\ Returned("create_hash_suffix")
    /\ synth.arg = "queue1"
    /\ synth.out[1] = "1"
    /\ synth.out[2] = "5"
    /\ Len(synth.out) = 16

\* What a call of NodeIamResources produced, by resource type and policy name.
OfType(type) ==
    SelectSeq(synth.out.resources, LAMBDA r : r.type = type)
Policies(policy_name) ==
    SelectSeq(synth.out.resources,
              LAMBDA r : r.type = "Policy" /\ r.policy_name = policy_name)
Managed ==
    /\ Returned("NodeIamResources")
    /\ synth.arg.node.instance_profile = NoArn
    /\ synth.arg.node.instance_role = NoArn

\* C16: the IAM resources of a node follow a first-match order: with an
\* instance-profile ARN nothing is created and the profile reference is the
\* ARN's resource name, a role ARN given or not; else with a role ARN exactly
\* one instance profile and no role or policy is created; else one role, the
\* baseline policy, the feature-conditional policies and one instance profile.
C16_DecisionOrder ==
    Returned("NodeIamResources")
    => LET node == synth.arg.node
           config == synth.arg.config
           out == synth.out
       IN  /\ node.instance_profile # NoArn
              => /\ out.resources = <<>>
                 /\ out.instance_profile =
                        <<node.instance_profile[Len(node.instance_profile)]>>
           /\ (node.instance_profile = NoArn /\ node.instance_role # NoArn)
              => /\ Len(out.resources) = 1
                 /\ Len(OfType("InstanceProfile")) = 1
                 /\ out.resources[1].roles =
                        <<<<node.instance_role[Len(node.instance_role)]>>>>
                 /\ out.instance_profile = out.resources[1].id
           /\ (node.instance_profile = NoArn /\ node.instance_role = NoArn)
              => /\ Len(OfType("Role")) = 1
                 /\ Len(OfType("InstanceProfile")) = 1
                 /\ Len(Policies("parallelcluster")) = 1
                 /\ Len(Policies("CustomCookbookS3Url")) =
                        (IF config.chef_cookbook.scheme = "s3://"
                         THEN 1 ELSE 0)
                 /\ Len(Policies("S3Access")) =
                        (IF node.s3_access # <<>> THEN 1 ELSE 0)
                 /\ Len(OfType("Policy")) =
                        Len(Policies("parallelcluster"))
                        + Len(Policies("CustomCookbookS3Url"))
                        + Len(Policies("S3Access"))
                 /\ Len(out.resources) = 2 + Len(OfType("Policy"))
                 /\ \A i \in 1..Len(out.resources) :
                        out.resources[i].type # "Role"
                        => out.resources[i].roles =
                               <<OfType("Role")[1].id>>
                 /\ out.instance_profile = OfType("InstanceProfile")[1].id

\* Both ARNs supplied: the profile wins and nothing is created.
C16_Witness ==
    /\ Returned("NodeIamResources")
    /\ synth.arg.node.instance_profile = ProfileArn
    /\ synth.arg.node.instance_role = RoleArn
    /\ synth.arg.node.s3_access # <<>>
    /\ synth.out.resources = <<>>
    /\ synth.out.instance_profile = <<"MyProfile">>

AllGrants(w) ==
    \A i \in 1..Len(synth.arg.node.s3_access) :
        synth.arg.node.s3_access[i].enable_write_access = w

\* C17: for a managed role, no S3 access grants give no S3-access policy;
\* only read grants give a policy of exactly one statement, the Get*/List*
\* one; only write grants give exactly one statement, the full-access one;
\* and no statement of any policy has an empty resource list.
C17_S3Minimal ==
    /\ Managed
       => LET grants == synth.arg.node.s3_access
              s3 == Policies("S3Access")
          IN  /\ grants = <<>> => Len(s3) = 0
              /\ grants # <<>> => Len(s3) = 1
              /\ (grants # <<>> /\ AllGrants(FALSE))
                 => /\ Len(s3[1].statements) = 1
                    /\ s3[1].statements[1].sid = "S3Read"
                    /\ s3[1].statements[1].actions = <<"s3:Get*", "s3:List*">>
              /\ (grants # <<>> /\ AllGrants(TRUE))
                 => /\ Len(s3[1].statements) = 1
                    /\ s3[1].statements[1].sid = "S3ReadWrite"
                    /\ s3[1].statements[1].actions = <<"s3:*">>
    /\ Returned("NodeIamResources")
       => \A i \in 1..Len(synth.out.resources) :
              \A j \in 1..Len(synth.out.resources[i].statements) :
                  synth.out.resources[i].statements[j].resources # <<>>

\* C18: the managed-policy list of a managed role holds the node's additional
\* policy ARNs, the CloudWatch agent policy ARN when logging is enabled and
\* the Batch full-access policy ARN when the scheduler is awsbatch, nothing
\* else and nothing twice; neither feature adds a policy resource.
C18_ManagedPolicyList ==
    Managed
    => LET node == synth.arg.node
           config == synth.arg.config
           arns == OfType("Role")[1].managed_policy_arns
           cw == policy_name_to_arn("CloudWatchAgentServerPolicy")
           batch == policy_name_to_arn("AWSBatchFullAccess")
       IN  /\ Len(OfType("Role")) = 1
           /\ \A a \in Range(node.additional_iam_policy_arns) :
                  a \in Range(arns)
           /\ \A a \in Range(arns) :
                  \/ a \in Range(node.additional_iam_policy_arns)
                  \/ a = cw /\ config.cloud_watch
                  \/ a = batch /\ config.scheduler = "awsbatch"
           /\ config.cloud_watch => cw \in Range(arns)
           /\ config.scheduler = "awsbatch" => batch \in Range(arns)
           /\ \A i, j \in 1..Len(arns) : arns[i] = arns[j] => i = j
           /\ \A i \in 1..Len(synth.out.resources) :
                  synth.out.resources[i].type = "Policy"
                  => synth.out.resources[i].policy_name
                         \in {"parallelcluster", "CustomCookbookS3Url",
                              "S3Access"}

\* Logging enabled and the agent policy also listed by the node: one entry.
C18_Witness ==
    /\ Managed
    /\ synth.arg.config.cloud_watch
    /\ synth.arg.config.scheduler = "awsbatch"
    /\ synth.arg.node.additional_iam_policy_arns =
           <<policy_name_to_arn("CloudWatchAgentServerPolicy")>>
    /\ Len(OfType("Role")[1].managed_policy_arns) = 2

AllNone(fields) == \A i \in 1..Len(fields) : fields[i] = <<"NONE">>

TagValues(key) ==
    {synth.out.tags[i].value :
         i \in {j \in 1..Len(synth.out.tags) : synth.out.tags[j].key = key}}

\* C20: the filesystem tag reads "efs=<n>, multiebs=<n>, raid=<n>, fsx=<n>"
\* with the lengths of the storage map's lists for EFS, EBS, RAID and FSX;
\* with no shared storage it reads "efs=0, multiebs=0, raid=0, fsx=0"; a map
\* that lacks a storage type yields no tags at all.
C20_FilesystemTag ==
    Returned("get_default_instance_tags")
    => LET ids == synth.arg.shared_storage_ids
       IN  IF DOMAIN ids = StorageTypes
           THEN /\ synth.out.raised = ""
                /\ TagValues("parallelcluster:filesystem") =
                       {<<"efs=", Str(Len(ids["EFS"])),
                          ", multiebs=", Str(Len(ids["EBS"])),
                          ", raid=", Str(Len(ids["RAID"])),
                          ", fsx=", Str(Len(ids["FSX"]))>>}
                /\ (\A ty \in StorageTypes : ids[ty] = <<>>)
                   => TagValues("parallelcluster:filesystem") =
                          {<<"efs=", "0", ", multiebs=", "0",
                             ", raid=", "0", ", fsx=", "0">>}
           ELSE /\ synth.out.raised = "KeyError"
                /\ synth.out.tags = <<>>

\* One EFS and two EBS storages: efs=1, multiebs=2, raid=0, fsx=0.
C20_Witness ==
    /\ Returned("get_default_instance_tags")
    /\ DOMAIN synth.arg.shared_storage_ids = StorageTypes
    /\ Len(synth.arg.shared_storage_ids["EFS"]) = 1
    /\ Len(synth.arg.shared_storage_ids["EBS"]) = 2
    /\ TagValues("parallelcluster:filesystem") =
           {<<"efs=", "1", ", multiebs=", "2", ", raid=", "0",
              ", fsx=", "0">>}

\* C21: a queue that declares its own security groups gets them first and
\* the managed group is not in the result; a queue that declares none gets
\* the managed group followed by its additional security groups; the managed
\* group is never in the result together with security groups of the queue's
\* own.
C21_SecurityGroups ==
    Returned("get_queue_security_groups_full")
    => LET own == synth.arg.security_groups
           additional == synth.arg.additional_security_groups
           out == synth.out
       IN  /\ own # <<>>
              => /\ SubSeq(out, 1, Len(own)) = own
                 /\ ManagedGroupRef \notin Range(out)
                 /\ out = own \o additional
           /\ own = <<>> => out = <<ManagedGroupRef>> \o additional
           /\ ManagedGroupRef \in Range(out) => own = <<>>

\* Own and additional groups declared: the managed group is left out.
C21_Witness ==
    /\ Returned("get_queue_security_groups_full")
    /\ synth.arg.security_groups = <<"sg-1">>
    /\ synth.arg.additional_security_groups = <<"sg-2">>
    /\ synth.out = <<"sg-1", "sg-2">>

\* Operations that hand the Cluster object to ClusterInfo.
WithCluster == {"describe", "update", "delete"}

\* C22: a ClusterInfo carries the head-node address and the login user if
\* and only if its stack is in a working status, and a head-node descriptor
\* only if the stack is in a working status and the cluster's live resources
\* were supplied; for a stack in a failed status none of the three is there.
C22_HeadNodeFields ==
    \A t \in Threads :
        pc[t] = "done"
        => /\ \A i \in 1..Len(result[t].infos) :
                  LET info == result[t].infos[i]
                  IN  /\ info.head_node_ip # "absent" <=> info.working
                      /\ info.user # "absent" <=> info.working
                      /\ info.head_node # "None"
                         => info.working /\ op[t].name \in WithCluster
                      /\ ~info.working
                         => /\ info.head_node_ip = "absent"
                            /\ info.user = "absent"
                            /\ info.head_node = "None"
           /\ (result[t].kind = "info" /\ op[t].name \in WithCluster)
              => result[t].infos[1].working = hist[t].pre.working
           /\ result[t].kind = "list"
              => \A i \in 1..Len(result[t].infos) :
                     result[t].infos[i].working = hist[t].listed[i].working

\* describe of a cluster whose stack failed: no address, user or head node,
\* yet the compute instances are reported.
C22_Witness ==
    /\ Done(1, "describe")
    /\ result[1].kind = "info"
    /\ hist[1].pre = FailedStack
    /\ ~result[1].infos[1].working
    /\ result[1].infos[1].head_node_ip = "absent"
    /\ result[1].infos[1].head_node = "None"
    /\ result[1].infos[1].compute_instances = "instances"

\* C23: update_compute_fleet_status resolves the cluster, then applies the
\* version guard, then tests the requested status: a request with an
\* unsupported status still issues the describe call; for a missing cluster
\* it returns the not-found failure and for a cluster older than 3.0.0 the
\* version failure; the not-supported failure is returned only for an
\* existing cluster at version 3.0.0 or later.
C23_CheckOrder ==
    \A t \in Threads :
        (Done(t, "fleet") /\ Unsupported(t))
        => /\ Len(calls[t]) = 1
           /\ calls[t][1].api = "describeStack"
           /\ (~hist[t].pre.exists /\ hist[t].cause # "fault")
              => /\ hist[t].cause = "notfound"
                 /\ result[t].message = "stack does not exist"
           /\ (/\ hist[t].pre.exists
               /\ VersionLess(hist[t].pre.version, <<3, 0, 0>>)
               /\ hist[t].cause # "fault")
              => /\ hist[t].cause = "version"
                 /\ result[t].message # NotSupported
                 /\ result[t].message # "stack does not exist"
           /\ result[t].message = NotSupported
              => /\ hist[t].pre.exists
                 /\ ~VersionLess(hist[t].pre.version, <<3, 0, 0>>)

\* An unsupported status asked of a 2.10.0 cluster: the version failure.
C23_Witness ==
    /\ Done(1, "fleet")
    /\ op[1].status = "RUNNING"
    /\ hist[1].pre.exists
    /\ hist[1].pre.version = <<2, 10, 0>>
    /\ hist[1].cause = "version"
    /\ Len(calls[1]) = 1
    /\ result[1].kind = "failure"
    /\ result[1].message # NotSupported

\* C24: check_cluster_version accepts a cluster exactly when its recorded
\* version is not empty and lies in [3.0.0, 4.0.0), that is when its major
\* number is 3; every version it accepts passes the fleet version guard; a
\* version of 4.0.0 or later passes the fleet guard and is rejected by
\* check_cluster_version.
C24_VersionWindow ==
    Returned("check_cluster_version")
    => LET text == synth.arg
           out == synth.out
       IN  /\ out.accepted <=> (text # NoVersionText /\ text[1] = "3")
           /\ out.accepted => out.fleet_guard = "passed"
           /\ (text # NoVersionText /\ text[1] \in {"4", "10"})
              => /\ out.fleet_guard = "passed"
                 /\ ~out.accepted
           /\ (text # NoVersionText /\ text[1] = "2")
              => /\ out.fleet_guard = "refused"
                 /\ ~out.accepted

\* 4.0.0 passes the fleet guard and is rejected by check_cluster_version.
C24_Witness ==
    /\ Returned("check_cluster_version")
    /\ synth.arg = <<"4", ".", "0", ".", "0">>
    /\ ~synth.out.accepted
    /\ synth.out.fleet_guard = "passed"

\* C25: whenever an S3-access policy is created for a node, its document
\* holds one or two statements, whatever the grants are, grants with an empty
\* list of resource patterns included.
C25_AtLeastOneStatement ==
    Returned("NodeIamResources")
    => \A i \in 1..Len(synth.out.resources) :
           synth.out.resources[i].policy_name = "S3Access"
           => Len(synth.out.resources[i].statements) \in {1, 2}

====
